---- MODULE Spec2Model ----
(***************************************************************************)
(* Model of ServerManager.py: the Server supervisor (child process, three  *)
(* stream worker threads, three queues, shutdown protocol) and the         *)
(* ServerManager registry that fans operations out to Servers by name.     *)
(*                                                                         *)
(* A text line is a sequence of characters; NL is the line terminator.     *)
(* Every queue.Queue operation is one atomic step (the Queue's mutex);     *)
(* everything between two queue operations of a thread is interleaved      *)
(* with the other threads.                                                 *)
(***************************************************************************)
EXTENDS Integers, Sequences, FiniteSets, TLC

\* ---------------------------------------------------------------- bounds
MaxCap == 2        \* largest queue_max drawn at construction
MaxOut == 3        \* stdout lines one child emits
MaxErr == 1        \* stderr lines one child emits
MaxCalls == 3      \* calls the controller makes in one behaviour

\* ------------------------------------------------------- program constants
QueueMaxLow == 1
QueueMaxHigh == 20

NL == "\n"
None == "None"

\* ------------------------------------------------------------- text lines
OutLine(i) == <<"o" \o ToString(i), NL>>
ErrLine(i) == <<"e" \o ToString(i), NL>>
Sentinel == <<NL>>

\* payloads a caller may hand to write(): text lines, and one non-text value
Str(l) == [type |-> "str", chars |-> l]
NonStr == [type |-> "int", chars |-> <<"7">>]
WriteLines == {<<>>, <<"a">>, <<"b", NL>>}
Payloads == {Str(l) : l \in WriteLines} \cup {NonStr}

\* shutdown_instruction as stored by Server.__init__
NoInstruction == [kind |-> "none", lines |-> <<>>]
Instructions ==
    { NoInstruction,
      [kind |-> "str", lines |-> <<(<<"stop">>)>>],
      [kind |-> "seq", lines |-> <<(<<"save">>), (<<"stop">>)>>] }

Names == {"s1", "s2"}

Last(q) == q[Len(q)]

\* ------------------------------------------------------------------ state
VARIABLES
    registry,    \* ServerManager._servers: the registered names
    conf,        \* per Server: queue_max, _shutdown_instruction and _print_flag
    ran,         \* per Server: _ran
    running,     \* per Server: _running
    queues,      \* per Server: _output_queue, _input_queue, _error_queue
    procs,       \* per Server: every child spawned by run(); the last is _process
    workers,     \* per Server: the threads started by each run()
    ctl,         \* the controller thread: where it is inside run()/shutdown()
    ret,         \* what the controller's last finished call returned or raised
    callsLeft    \* calls the controller may still make

vars == <<registry, conf, ran, running, queues, procs, workers, ctl, ret, callsLeft>>

Objs == DOMAIN ran

\* return values
RNone == [t |-> "none"]
RBool(b) == [t |-> "bool", v |-> b]
RStr(l) == [t |-> "str", v |-> l]
RInt(i) == [t |-> "int", v |-> i]
RRaise(e) == [t |-> "raise", v |-> e]
RList(f) == [t |-> "list", v |-> f]
RDict(f) == [t |-> "dict", v |-> f]
Ret(op, s, val) == [op |-> op, srv |-> s, val |-> val]

IdleCtl == [pc |-> "idle", srv |-> None, caller |-> None, idx |-> 0, timedOut |-> FALSE,
            writes |-> <<>>, signals |-> <<>>, sentinels |-> 0]

\* ----------------------------------------------------------- queue.Queue
\* maxsize 0 is an unbounded queue
InputQueueMax == 0
MaxSize(s, qn) == IF qn = "input" THEN InputQueueMax ELSE conf[s].queue_max
QSize(s, qn) == Len(queues[s][qn])
QFull(s, qn) == 0 < MaxSize(s, qn) /\ MaxSize(s, qn) <= QSize(s, qn)
QEmpty(s, qn) == QSize(s, qn) = 0
QPut(qs, s, qn, item) == [qs EXCEPT ![s][qn] = Append(@, item)]
QGet(qs, s, qn) == [qs EXCEPT ![s][qn] = Tail(@)]

\* ------------------------------------------------------ subprocess.Popen
Cur(s) == Len(procs[s])
CurProc(s) == procs[s][Cur(s)]
\* Popen.poll() is None
PollIsNone(p) == p.alive
NewProc(debug) ==
    [alive |-> TRUE, returncode |-> 0, debug |-> debug,
     term |-> FALSE, outSent |-> 0, errSent |-> 0,
     stdout |-> <<>>, stderr |-> <<>>, stdin |-> <<>>]
NewWorkers ==
    [out |-> [pc |-> "poll", line |-> <<>>, full |-> FALSE],
     inp |-> [pc |-> "get", line |-> <<>>],
     err |-> [pc |-> "poll", line |-> <<>>, full |-> FALSE]]
IsAlive(w) == w.pc \notin {"done", "dead"}

\* the queue each thread is handed in run()
OutputWorkerQueue == "output"
InputWorkerQueue == "input"
ErrorWorkerQueue == "input"
WorkerQueue(w) == IF w = "out" THEN OutputWorkerQueue ELSE ErrorWorkerQueue
Pipe(p, w) == IF w = "out" THEN p.stdout ELSE p.stderr

\* --------------------------------------------------- Server.__init__ etc.
Capacities == QueueMaxLow .. (IF MaxCap < QueueMaxHigh THEN MaxCap ELSE QueueMaxHigh)
DefaultQueueMax == 10

InitObjs(objs, caps, instrs) ==
    /\ conf \in [objs -> [queue_max : caps, instruction : instrs, print_output : {TRUE}]]
    /\ ran = [s \in objs |-> FALSE]
    /\ running = [s \in objs |-> FALSE]
    /\ queues = [s \in objs |-> [output |-> <<>>, input |-> <<>>, error |-> <<>>]]
    /\ procs = [s \in objs |-> <<>>]
    /\ workers = [s \in objs |-> <<>>]
    /\ ctl = IdleCtl
    /\ ret = Ret("init", None, RNone)
    /\ callsLeft = MaxCalls

\* one Server constructed by the controller itself, queue_max left at its default
Init ==
    /\ registry = {}
    /\ InitObjs({"s1"}, {DefaultQueueMax}, Instructions)

\* one Server constructed with any legal queue_max
InitStreams ==
    /\ registry = {}
    /\ InitObjs({"s1"}, Capacities, {NoInstruction})

\* one Server with no shutdown instruction
InitStdin ==
    /\ registry = {}
    /\ InitObjs({"s1"}, {DefaultQueueMax}, {NoInstruction})

\* ServerManager.__init__: one Server per descriptor, queue_max not passed on
InitManager ==
    /\ registry = Names
    /\ InitObjs(Names, {DefaultQueueMax}, {NoInstruction})

\* -------------------------------------------------------- the child process
\* the child prints one more line on stdout (w = "out") or stderr (w = "err")
ChildEmit(s, g, w) ==
    LET p == procs[s][g] IN
    /\ p.alive /\ ~p.debug
    /\ IF w = "out"
       THEN /\ p.outSent < MaxOut
            /\ procs' = [procs EXCEPT ![s][g].stdout = Append(@, OutLine(p.outSent + 1)),
                                      ![s][g].outSent = @ + 1]
       ELSE /\ p.errSent < MaxErr
            /\ procs' = [procs EXCEPT ![s][g].stderr = Append(@, ErrLine(p.errSent + 1)),
                                      ![s][g].errSent = @ + 1]
    /\ UNCHANGED <<registry, conf, ran, running, queues, workers, ctl, ret, callsLeft>>

\* the child exits by itself (also: in response to what it read on stdin)
ChildExit(s, g) ==
    /\ procs[s][g].alive
    /\ procs' = [procs EXCEPT ![s][g].alive = FALSE, ![s][g].returncode = 0]
    /\ UNCHANGED <<registry, conf, ran, running, queues, workers, ctl, ret, callsLeft>>

\* the child dies of a SIGTERM it was sent (a child that ignores the signal
\* never takes this step)
ChildTerminated(s, g) ==
    /\ procs[s][g].alive /\ procs[s][g].term
    /\ procs' = [procs EXCEPT ![s][g].alive = FALSE, ![s][g].returncode = -15]
    /\ UNCHANGED <<registry, conf, ran, running, queues, workers, ctl, ret, callsLeft>>

\* ------------------------------------- output_worker and error_worker
\* while process.poll() is None:
StreamPoll(s, g, w) ==
    /\ workers[s][g][w].pc = "poll"
    /\ workers' = [workers EXCEPT ![s][g][w].pc =
                      IF PollIsNone(procs[s][g]) THEN "readline" ELSE "done"]
    /\ UNCHANGED <<registry, conf, ran, running, queues, procs, ctl, ret, callsLeft>>

\* line = process.stdout.readline(); if line: ...
\* blocks while the pipe is empty and open; "" at end of file; in debug mode
\* the stream attribute is None and the thread dies of AttributeError
StreamReadline(s, g, w) ==
    LET p == procs[s][g] IN
    /\ workers[s][g][w].pc = "readline"
    /\ IF p.debug
       THEN /\ workers' = [workers EXCEPT ![s][g][w].pc = "dead"]
            /\ UNCHANGED procs
       ELSE IF Pipe(p, w) # <<>>
       THEN /\ workers' = [workers EXCEPT ![s][g][w] =
                              [pc |-> "full", line |-> Head(Pipe(p, w)), full |-> FALSE]]
            /\ procs' = IF w = "out"
                        THEN [procs EXCEPT ![s][g].stdout = Tail(@)]
                        ELSE [procs EXCEPT ![s][g].stderr = Tail(@)]
       ELSE /\ ~p.alive
            /\ workers' = [workers EXCEPT ![s][g][w].pc = "poll"]
            /\ UNCHANGED procs
    /\ UNCHANGED <<registry, conf, ran, running, queues, ctl, ret, callsLeft>>

\* if q.full():      (full is the value the test saw)
StreamFull(s, g, w) ==
    /\ workers[s][g][w].pc = "full"
    /\ workers' = [workers EXCEPT ![s][g][w].full = QFull(s, WorkerQueue(w)),
                                  ![s][g][w].pc =
                                      IF QFull(s, WorkerQueue(w)) THEN "get" ELSE "put"]
    /\ UNCHANGED <<registry, conf, ran, running, queues, procs, ctl, ret, callsLeft>>

\*     q.get()        (blocks while the queue is empty)
StreamGet(s, g, w) ==
    /\ workers[s][g][w].pc = "get"
    /\ ~QEmpty(s, WorkerQueue(w))
    /\ queues' = QGet(queues, s, WorkerQueue(w))
    /\ workers' = [workers EXCEPT ![s][g][w].pc = "put"]
    /\ UNCHANGED <<registry, conf, ran, running, procs, ctl, ret, callsLeft>>

\* q.put(line)        (blocks while the queue is full)
StreamPut(s, g, w) ==
    /\ workers[s][g][w].pc = "put"
    /\ ~QFull(s, WorkerQueue(w))
    /\ queues' = QPut(queues, s, WorkerQueue(w), workers[s][g][w].line)
    /\ workers' = [workers EXCEPT ![s][g][w] =
                      [pc |-> "poll", line |-> <<>>, full |-> FALSE]]
    /\ UNCHANGED <<registry, conf, ran, running, procs, ctl, ret, callsLeft>>

\* ------------------------------------------------------------ input_worker
\* if not input_string[-1] == '\n': input_string += '\n'
WithTerminator(l) == IF Last(l) = NL THEN l ELSE Append(l, NL)

\* (mutant: the queue hands out its newest item first, as a LifoQueue would)
InputGetNewest(s, g) ==
    LET q == queues[s][InputWorkerQueue]
        item == Last(q) IN
    /\ workers[s][g].inp.pc = "get"
    /\ ~QEmpty(s, InputWorkerQueue)
    /\ queues' = [queues EXCEPT ![s][InputWorkerQueue] = SubSeq(q, 1, Len(q) - 1)]
    /\ workers' = [workers EXCEPT ![s][g].inp =
                      IF Len(item) = 0
                      THEN [pc |-> "dead", line |-> <<>>]
                      ELSE [pc |-> "poll", line |-> WithTerminator(item)]]
    /\ UNCHANGED <<registry, conf, ran, running, procs, ctl, ret, callsLeft>>

\* input_string = q.get(), then the terminator; "" has no [-1]: IndexError
InputGet(s, g) ==
    LET item == Head(queues[s][InputWorkerQueue]) IN
    /\ workers[s][g].inp.pc = "get"
    /\ ~QEmpty(s, InputWorkerQueue)
    /\ queues' = QGet(queues, s, InputWorkerQueue)
    /\ workers' = [workers EXCEPT ![s][g].inp =
                      IF Len(item) = 0
                      THEN [pc |-> "dead", line |-> <<>>]
                      ELSE [pc |-> "poll", line |-> WithTerminator(item)]]
    /\ UNCHANGED <<registry, conf, ran, running, procs, ctl, ret, callsLeft>>

\* if process.poll() is None: ... else: break
InputPoll(s, g) ==
    /\ workers[s][g].inp.pc = "poll"
    /\ workers' = [workers EXCEPT ![s][g].inp =
                      IF PollIsNone(procs[s][g])
                      THEN [@ EXCEPT !.pc = "write"]
                      ELSE [pc |-> "done", line |-> <<>>]]
    /\ UNCHANGED <<registry, conf, ran, running, queues, procs, ctl, ret, callsLeft>>

\* process.stdin.write(input_string): AttributeError in debug mode (stdin is
\* None), BrokenPipeError when the child has exited since the poll
InputWrite(s, g) ==
    LET p == procs[s][g] IN
    /\ workers[s][g].inp.pc = "write"
    /\ IF ~p.debug /\ p.alive
       THEN /\ procs' = [procs EXCEPT ![s][g].stdin = Append(@, workers[s][g].inp.line)]
            /\ workers' = [workers EXCEPT ![s][g].inp = [pc |-> "get", line |-> <<>>]]
       ELSE /\ workers' = [workers EXCEPT ![s][g].inp = [pc |-> "dead", line |-> <<>>]]
            /\ UNCHANGED procs
    /\ UNCHANGED <<registry, conf, ran, running, queues, ctl, ret, callsLeft>>

\* ----------------------------------------------------------------- Server
\* the controller is between two calls and makes another one
Call ==
    /\ ctl.pc = "idle"
    /\ callsLeft > 0
    /\ callsLeft' = callsLeft - 1

\* is_running(): its value, and what it does to _running
\* (mutant: trusts the _running flag instead of polling the child)
IsRunningValueStale(s) == ran[s] /\ running[s]
IsRunningValue(s) == ran[s] /\ PollIsNone(CurProc(s))
IsRunningFlag(s) ==
    IF ran[s] /\ ~PollIsNone(CurProc(s)) THEN [running EXCEPT ![s] = FALSE] ELSE running

IsRunning(s) ==
    /\ Call
    /\ running' = IsRunningFlag(s)
    /\ ret' = Ret("is_running", s, RBool(IsRunningValue(s)))
    /\ UNCHANGED <<registry, conf, ran, queues, procs, workers, ctl>>

\* run(): spawn the child, start the three threads, set _running; the poll
\* that follows is a later step, so the child may already have exited by then
RunSpawn(s, debug) ==
    /\ ran' = [ran EXCEPT ![s] = TRUE]
    /\ procs' = [procs EXCEPT ![s] = Append(@, NewProc(debug))]
    /\ workers' = [workers EXCEPT ![s] = Append(@, NewWorkers)]
    /\ running' = [running EXCEPT ![s] = TRUE]
    /\ ctl' = [IdleCtl EXCEPT !.pc = "run_poll", !.srv = s]
    /\ UNCHANGED <<registry, conf, queues, ret>>

Run(s, debug) ==
    /\ Call
    /\ RunSpawn(s, debug)

\* if self._process.poll() is None: return True / else: self.shutdown()
RunPoll(s) ==
    /\ ctl.pc = "run_poll" /\ ctl.srv = s
    /\ IF PollIsNone(CurProc(s))
       THEN /\ ctl' = IdleCtl
            /\ ret' = Ret("run", s, RBool(TRUE))
       ELSE /\ ctl' = [IdleCtl EXCEPT !.pc = "sh_enter", !.srv = s, !.caller = "run"]
            /\ UNCHANGED ret
    /\ UNCHANGED <<registry, conf, ran, running, queues, procs, workers, callsLeft>>

\* (mutant: q.get() in place of q.get_nowait(): waits for an item)
GetBlocking(s, qn, op) ==
    /\ ~QEmpty(s, qn)
    /\ ret' = Ret(op, s, RStr(Head(queues[s][qn])))
    /\ queues' = QGet(queues, s, qn)
    /\ UNCHANGED <<registry, conf, ran, running, procs, workers, ctl>>

\* try: return q.get_nowait() / except queue.Empty: return ""
GetNoWait(s, qn, op) ==
    /\ IF QEmpty(s, qn)
       THEN /\ ret' = Ret(op, s, RStr(<<>>))
            /\ UNCHANGED queues
       ELSE /\ ret' = Ret(op, s, RStr(Head(queues[s][qn])))
            /\ queues' = QGet(queues, s, qn)
    /\ UNCHANGED <<registry, conf, ran, running, procs, workers, ctl>>

\* read() / read_error() called by the controller
ReadFrom(s, qn, op) ==
    /\ Call
    /\ GetNoWait(s, qn, op)

ReadQueue == "output"
ReadErrorQueue == "error"
Read(s) == ReadFrom(s, ReadQueue, "read")
ReadError(s) == ReadFrom(s, ReadErrorQueue, "read_error")

\* read() / read_error() called by a second thread of the caller's, which
\* polls the queues whatever the controller is doing
PollerRead(s) ==
    /\ GetNoWait(s, ReadQueue, "read")
    /\ UNCHANGED callsLeft
PollerReadError(s) ==
    /\ GetNoWait(s, ReadErrorQueue, "read_error")
    /\ UNCHANGED callsLeft

\* write(): the queues after the call; ValueError leaves them alone
\* (mutant: the type test is missing)
WriteNeverRaises(p) == FALSE
WriteRaises(p) == p.type # "str"
WriteQueues(qs, s, p) == IF WriteRaises(p) THEN qs ELSE QPut(qs, s, "input", p.chars)

Write(s, p) ==
    /\ Call
    /\ queues' = WriteQueues(queues, s, p)
    /\ ret' = Ret("write", s, IF WriteRaises(p) THEN RRaise("ValueError") ELSE RNone)
    /\ UNCHANGED <<registry, conf, ran, running, procs, workers, ctl>>

\* ------------------------------------------------------- Server.shutdown
\* the call itself; the body starts with the next step of the controller
CallShutdown(s) ==
    /\ Call
    /\ ctl' = [IdleCtl EXCEPT !.pc = "sh_enter", !.srv = s, !.caller = "api"]
    /\ UNCHANGED <<registry, conf, ran, running, queues, procs, workers, ret>>

\* what the caller of shutdown() sees: run() drops shutdown's return value
Returned(val) ==
    Ret(IF ctl.caller = "run" THEN "run" ELSE "shutdown", ctl.srv,
        IF ctl.caller = "run" /\ val.t # "raise" THEN RNone ELSE val)

\* if self.is_running() is True: ... (else fall off the end: None)
ShutdownEnter(s) ==
    /\ ctl.pc = "sh_enter" /\ ctl.srv = s
    /\ running' = IsRunningFlag(s)
    /\ IF IsRunningValue(s)
       THEN /\ ctl' = [ctl EXCEPT !.pc = IF conf[s].instruction.kind # "none"
                                         THEN "sh_instr" ELSE "sh_term",
                                  !.idx = 1]
            /\ UNCHANGED ret
       ELSE /\ ctl' = IdleCtl
            /\ ret' = Returned(RNone)
    /\ UNCHANGED <<registry, conf, ran, queues, procs, workers, callsLeft>>

\* (mutant: leaves the loop after the first instruction)
ShutdownInstrFirstOnly(s) ==
    LET line == conf[s].instruction.lines[ctl.idx] IN
    /\ ctl.pc = "sh_instr" /\ ctl.srv = s
    /\ queues' = WriteQueues(queues, s, Str(line))
    /\ ctl' = [ctl EXCEPT !.writes = Append(@, line), !.idx = @ + 1, !.pc = "sh_wait"]
    /\ UNCHANGED <<registry, conf, ran, running, procs, workers, ret, callsLeft>>

\* self.write(instruction): once for a str, once per element (then sleep) for a tuple
ShutdownInstr(s) ==
    LET ins == conf[s].instruction
        line == ins.lines[ctl.idx] IN
    /\ ctl.pc = "sh_instr" /\ ctl.srv = s
    /\ queues' = WriteQueues(queues, s, Str(line))
    /\ ctl' = [ctl EXCEPT !.writes = Append(@, line),
                          !.idx = @ + 1,
                          !.pc = IF ins.kind = "str" \/ ctl.idx = Len(ins.lines)
                                 THEN "sh_wait" ELSE "sh_instr"]
    /\ UNCHANGED <<registry, conf, ran, running, procs, workers, ret, callsLeft>>

TerminateSignal == "terminate"

\* (mutant: self._process.kill() in place of terminate())
ShutdownKill(s) ==
    /\ ctl.pc = "sh_term" /\ ctl.srv = s
    /\ procs' = [procs EXCEPT ![s][Cur(s)].alive = FALSE,
                              ![s][Cur(s)].returncode =
                                  IF procs[s][Cur(s)].alive THEN -9 ELSE @]
    /\ ctl' = [ctl EXCEPT !.signals = Append(@, "kill"), !.pc = "sh_wait"]
    /\ UNCHANGED <<registry, conf, ran, running, queues, workers, ret, callsLeft>>

\* self._process.terminate(): SIGTERM, nothing if the child was already reaped
ShutdownTerminate(s) ==
    /\ ctl.pc = "sh_term" /\ ctl.srv = s
    /\ procs' = [procs EXCEPT ![s][Cur(s)].term = @ \/ procs[s][Cur(s)].alive]
    /\ ctl' = [ctl EXCEPT !.signals = Append(@, TerminateSignal), !.pc = "sh_wait"]
    /\ UNCHANGED <<registry, conf, ran, running, queues, workers, ret, callsLeft>>

\* self._process.wait(shutdown_wait): returns once the child has exited, or
\* TimeoutExpired is caught and reported while it is still alive
ShutdownWait(s) ==
    /\ ctl.pc = "sh_wait" /\ ctl.srv = s
    /\ ctl' = [ctl EXCEPT !.pc = "sh_join_out",
                          !.timedOut = PollIsNone(CurProc(s))]
    /\ UNCHANGED <<registry, conf, ran, running, queues, procs, workers, ret, callsLeft>>

\* if self._output_worker.is_alive(): self._output_worker.join()
ShutdownJoinOut(s) ==
    /\ ctl.pc = "sh_join_out" /\ ctl.srv = s
    /\ ~IsAlive(workers[s][Cur(s)].out)
    /\ ctl' = [ctl EXCEPT !.pc = "sh_join_in"]
    /\ UNCHANGED <<registry, conf, ran, running, queues, procs, workers, ret, callsLeft>>

\* if self._input_worker.is_alive(): self.write("\n")
ShutdownJoinIn(s) ==
    /\ ctl.pc = "sh_join_in" /\ ctl.srv = s
    /\ IF IsAlive(workers[s][Cur(s)].inp)
       THEN /\ queues' = WriteQueues(queues, s, Str(Sentinel))
            /\ ctl' = [ctl EXCEPT !.sentinels = @ + 1, !.pc = "sh_join_in_wait"]
       ELSE /\ ctl' = [ctl EXCEPT !.pc = "sh_join_err"]
            /\ UNCHANGED queues
    /\ UNCHANGED <<registry, conf, ran, running, procs, workers, ret, callsLeft>>

\*     self._input_worker.join()
ShutdownJoinInWait(s) ==
    /\ ctl.pc = "sh_join_in_wait" /\ ctl.srv = s
    /\ ~IsAlive(workers[s][Cur(s)].inp)
    /\ ctl' = [ctl EXCEPT !.pc = "sh_join_err"]
    /\ UNCHANGED <<registry, conf, ran, running, queues, procs, workers, ret, callsLeft>>

\* if self._error_worker.is_alive(): self._error_worker.join()
ShutdownJoinErr(s) ==
    /\ ctl.pc = "sh_join_err" /\ ctl.srv = s
    /\ ~IsAlive(workers[s][Cur(s)].err)
    /\ ctl' = [ctl EXCEPT !.pc = "sh_final"]
    /\ UNCHANGED <<registry, conf, ran, running, queues, procs, workers, ret, callsLeft>>

\* if self._process.poll() is None: raise Exception("Process failed to close")
\* else: self._running = False; return self._process.returncode
ShutdownFinal(s) ==
    /\ ctl.pc = "sh_final" /\ ctl.srv = s
    /\ IF PollIsNone(CurProc(s))
       THEN /\ ret' = Returned(RRaise("Exception"))
            /\ UNCHANGED running
       ELSE /\ ret' = Returned(RInt(CurProc(s).returncode))
            /\ running' = [running EXCEPT ![s] = FALSE]
    /\ ctl' = IdleCtl
    /\ UNCHANGED <<registry, conf, ran, queues, procs, workers, callsLeft>>

\* ---------------------------------------------------------- ServerManager
NameArgs == Names \cup {"zz"}

\* start(server_name): serv = self._servers.get(server_name); if serv: return serv.run()
MgrStart(n) ==
    IF n \in registry
    THEN Run(n, FALSE)
    ELSE /\ Call
         /\ ret' = Ret("mgr_start", n, RNone)
         /\ UNCHANGED <<registry, conf, ran, running, queues, procs, workers, ctl>>

\* send_all(message): write(message) on every registered Server, in turn; the
\* first ValueError ends the call
MgrSendAll(p) ==
    /\ Call
    /\ IF WriteRaises(p) /\ registry # {}
       THEN /\ ret' = Ret("send_all", None, RRaise("ValueError"))
            /\ UNCHANGED queues
       ELSE /\ ret' = Ret("send_all", None, RList([n \in registry |-> RNone]))
            /\ queues' = [s \in Objs |->
                            IF s \in registry
                            THEN WriteQueues(queues, s, p)[s] ELSE queues[s]]
    /\ UNCHANGED <<registry, conf, ran, running, procs, workers, ctl>>

\* shutdown(server_name): if serv and serv.is_running() is True: return serv.shutdown()
MgrShutdown(n) ==
    /\ Call
    /\ IF n \in registry
       THEN /\ running' = IsRunningFlag(n)
            /\ IF IsRunningValue(n)
               THEN /\ ctl' = [IdleCtl EXCEPT !.pc = "sh_enter", !.srv = n, !.caller = "api"]
                    /\ UNCHANGED ret
               ELSE /\ ret' = Ret("mgr_shutdown", n, RNone)
                    /\ UNCHANGED ctl
       ELSE /\ ret' = Ret("mgr_shutdown", n, RNone)
            /\ UNCHANGED <<running, ctl>>
    /\ UNCHANGED <<registry, conf, ran, queues, procs, workers>>

\* (mutant: send() without the is_running() test, as send_all() is written)
MgrSendUnguarded(n, p) ==
    /\ Call
    /\ ret' = Ret("mgr_send", n, RNone)
    /\ queues' = IF n \in registry /\ ~WriteRaises(p) THEN WriteQueues(queues, n, p) ELSE queues
    /\ UNCHANGED <<registry, conf, ran, running, procs, workers, ctl>>

\* send(server_name, message): a message that is not a str is dropped, not
\* refused; if serv and serv.is_running() is True: return serv.write(message)
MgrSend(n, p) ==
    /\ Call
    /\ ret' = Ret("mgr_send", n, RNone)
    /\ IF ~WriteRaises(p) /\ n \in registry
       THEN /\ running' = IsRunningFlag(n)
            /\ queues' = IF IsRunningValue(n) THEN WriteQueues(queues, n, p) ELSE queues
       ELSE UNCHANGED <<running, queues>>
    /\ UNCHANGED <<registry, conf, ran, procs, workers, ctl>>

\* read(server_name): if serv and serv.is_running() is True: return serv.read()
MgrRead(n) ==
    /\ Call
    /\ IF n \in registry
       THEN /\ running' = IsRunningFlag(n)
            /\ IF IsRunningValue(n) /\ ~QEmpty(n, ReadQueue)
               THEN /\ ret' = Ret("mgr_read", n, RStr(Head(queues[n][ReadQueue])))
                    /\ queues' = QGet(queues, n, ReadQueue)
               ELSE /\ ret' = Ret("mgr_read", n,
                                  IF IsRunningValue(n) THEN RStr(<<>>) ELSE RNone)
                    /\ UNCHANGED queues
       ELSE /\ ret' = Ret("mgr_read", n, RNone)
            /\ UNCHANGED <<running, queues>>
    /\ UNCHANGED <<registry, conf, ran, procs, workers, ctl>>

\* Server.status(): the dict it builds, after its is_running() call
StatusDict(s) ==
    LET flag == IsRunningFlag(s)[s] IN
    [Running |-> IsRunningValue(s),
     print_output |-> conf[s].print_output,
     Process |-> IF ~ran[s] THEN "absent"
                 ELSE IF flag THEN "ACTIVE"
                 ELSE IF PollIsNone(CurProc(s)) THEN None
                 ELSE ToString(CurProc(s).returncode),
     threads |-> IF ran[s] /\ flag
                 THEN <<IsAlive(workers[s][Cur(s)].err), IsAlive(workers[s][Cur(s)].out),
                        IsAlive(workers[s][Cur(s)].inp)>>
                 ELSE <<>>]

\* status(server_name, debug): if serv: return serv.status(debug); with debug
\* the Server's __dict__ is returned and nothing is polled
MgrStatus(n, debug) ==
    /\ Call
    /\ IF n \in registry
       THEN IF debug
            THEN /\ ret' = Ret("mgr_status", n, RDict([attributes |-> "__dict__"]))
                 /\ UNCHANGED running
            ELSE /\ ret' = Ret("mgr_status", n, RDict(StatusDict(n)))
                 /\ running' = IsRunningFlag(n)
       ELSE /\ ret' = Ret("mgr_status", n, RNone)
            /\ UNCHANGED running
    /\ UNCHANGED <<registry, conf, ran, queues, procs, workers, ctl>>

\* output(server_name, value): value None asks for the flag, True/False set
\* it, anything else raises; nothing for a name that is not registered
OutputArgs == {RNone, RBool(TRUE), RBool(FALSE), RInt(0)}
MgrOutput(n, v) ==
    /\ Call
    /\ IF n \in registry
       THEN IF v = RNone
            THEN /\ ret' = Ret("mgr_output", n, RBool(conf[n].print_output))
                 /\ UNCHANGED conf
            ELSE IF v.t = "bool"
            THEN /\ ret' = Ret("mgr_output", n, RNone)
                 /\ conf' = [conf EXCEPT ![n].print_output = v.v]
            ELSE /\ ret' = Ret("mgr_output", n, RRaise("ValueError"))
                 /\ UNCHANGED conf
       ELSE /\ ret' = Ret("mgr_output", n, RNone)
            /\ UNCHANGED conf
    /\ UNCHANGED <<registry, ran, running, queues, procs, workers, ctl>>

\* ------------------------------------------------------ the specifications
\* Each specification is the whole program under one use of it: the actions
\* are the same, the controller's calls and the child's output differ.

\* start is only valid from NotStarted: the controller keeps to it
FirstRun(s, debug) == ~ran[s] /\ Run(s, debug)

\* the life cycle of one Server whose child prints nothing:
\* run, write, is_running, shutdown
Next ==
    \/ \E s \in Objs :
          \/ \E debug \in BOOLEAN : FirstRun(s, debug)
          \/ IsRunning(s)
          \/ \E p \in Payloads : Write(s, p)
          \/ CallShutdown(s)
          \/ RunPoll(s)
          \/ ShutdownEnter(s)
          \/ ShutdownInstr(s)
          \/ ShutdownTerminate(s)
          \/ ShutdownWait(s)
          \/ ShutdownJoinOut(s)
          \/ ShutdownJoinIn(s)
          \/ ShutdownJoinInWait(s)
          \/ ShutdownJoinErr(s)
          \/ ShutdownFinal(s)
    \/ \E s \in Objs : \E g \in 1 .. Len(procs[s]) :
          \/ \E w \in {"out", "err"} :
                \/ StreamPoll(s, g, w)
                \/ StreamReadline(s, g, w)
          \/ InputGet(s, g)
          \/ InputPoll(s, g)
          \/ InputWrite(s, g)
          \/ ChildExit(s, g)
          \/ ChildTerminated(s, g)

Spec == Init /\ [][Next]_vars

\* every thread of the program is scheduled fairly; the child owes nothing
ControllerSteps ==
    \E s \in Objs :
        \/ RunPoll(s)
        \/ ShutdownEnter(s)
        \/ ShutdownInstr(s)
        \/ ShutdownTerminate(s)
        \/ ShutdownWait(s)
        \/ ShutdownJoinOut(s)
        \/ ShutdownJoinIn(s)
        \/ ShutdownJoinInWait(s)
        \/ ShutdownJoinErr(s)
        \/ ShutdownFinal(s)

StreamWorkerSteps(w) ==
    \E s \in Objs : \E g \in 1 .. Len(procs[s]) :
        \/ StreamPoll(s, g, w)
        \/ StreamReadline(s, g, w)
        \/ StreamFull(s, g, w)
        \/ StreamGet(s, g, w)
        \/ StreamPut(s, g, w)

InputWorkerSteps ==
    \E s \in Objs : \E g \in 1 .. Len(procs[s]) :
        \/ InputGet(s, g)
        \/ InputPoll(s, g)
        \/ InputWrite(s, g)

FairSpec ==
    /\ Spec
    /\ WF_vars(ControllerSteps)
    /\ WF_vars(StreamWorkerSteps("out"))
    /\ WF_vars(StreamWorkerSteps("err"))
    /\ WF_vars(InputWorkerSteps)

\* the streams of one running Server: the child prints on stdout and stderr,
\* the controller reads
NextStreams ==
    \/ \E s \in Objs :
          \/ FirstRun(s, FALSE)
          \/ Read(s)
          \/ ReadError(s)
          \/ RunPoll(s)
          \/ ShutdownEnter(s)
    \/ \E s \in Objs : \E g \in 1 .. Len(procs[s]) :
          \/ \E w \in {"out", "err"} :
                \/ ChildEmit(s, g, w)
                \/ StreamPoll(s, g, w)
                \/ StreamReadline(s, g, w)
                \/ StreamFull(s, g, w)
                \/ StreamGet(s, g, w)
                \/ StreamPut(s, g, w)
          \/ InputGet(s, g)
          \/ InputPoll(s, g)
          \/ InputWrite(s, g)
          \/ ChildExit(s, g)

SpecStreams == InitStreams /\ [][NextStreams]_vars

\* the stdin path of one running Server: the controller writes while the
\* child is alive
WriteRunning(s, p) == ran[s] /\ PollIsNone(CurProc(s)) /\ Write(s, p)

NextStdin ==
    \/ \E s \in Objs :
          \/ FirstRun(s, FALSE)
          \/ \E p \in Payloads : WriteRunning(s, p)
          \/ RunPoll(s)
          \/ ShutdownEnter(s)
    \/ \E s \in Objs : \E g \in 1 .. Len(procs[s]) :
          \/ \E w \in {"out", "err"} :
                \/ StreamPoll(s, g, w)
                \/ StreamReadline(s, g, w)
          \/ InputGet(s, g)
          \/ InputPoll(s, g)
          \/ InputWrite(s, g)
          \/ ChildExit(s, g)

SpecStdin == InitStdin /\ [][NextStdin]_vars

\* a controller that calls run() whenever it likes
NextRestart ==
    \/ \E s \in Objs :
          \/ Run(s, FALSE)
          \/ IsRunning(s)
          \/ RunPoll(s)
          \/ ShutdownEnter(s)
    \/ \E s \in Objs : \E g \in 1 .. Len(procs[s]) :
          \/ \E w \in {"out", "err"} :
                \/ StreamPoll(s, g, w)
                \/ StreamReadline(s, g, w)
          \/ ChildExit(s, g)

SpecRestart == Init /\ [][NextRestart]_vars

\* a ServerManager of two Servers
NextManager ==
    \/ \E n \in NameArgs : MgrStart(n)
    \/ \E p \in Payloads : MgrSendAll(p)
    \/ \E s \in Objs :
          \/ RunPoll(s)
          \/ ShutdownEnter(s)
    \/ \E s \in Objs : \E g \in 1 .. Len(procs[s]) :
          \/ \E w \in {"out", "err"} :
                \/ StreamPoll(s, g, w)
                \/ StreamReadline(s, g, w)
          \/ InputGet(s, g)
          \/ InputPoll(s, g)
          \/ InputWrite(s, g)
          \/ ChildExit(s, g)

SpecManager == InitManager /\ [][NextManager]_vars

\* the order of delivery: the controller writes lines that carry the number of
\* the call that wrote them, before or after run(); the child prints on stderr
InLine(k) == IF k % 2 = 1 THEN <<"w" \o ToString(k)>> ELSE <<"w" \o ToString(k), NL>>
CallNo == MaxCalls - callsLeft + 1
WriteNumbered(s) == Write(s, Str(InLine(CallNo)))

NextOrder ==
    \/ \E s \in Objs :
          \/ FirstRun(s, FALSE)
          \/ WriteNumbered(s)
          \/ RunPoll(s)
          \/ ShutdownEnter(s)
    \/ \E s \in Objs : \E g \in 1 .. Len(procs[s]) :
          \/ ChildEmit(s, g, "err")
          \/ \E w \in {"out", "err"} :
                \/ StreamPoll(s, g, w)
                \/ StreamReadline(s, g, w)
          \/ StreamFull(s, g, "err")
          \/ StreamPut(s, g, "err")
          \/ InputGet(s, g)
          \/ InputPoll(s, g)
          \/ InputWrite(s, g)
          \/ ChildExit(s, g)

SpecOrder == InitStdin /\ [][NextOrder]_vars

\* reads in every state of the life cycle: the controller starts the Server
\* and shuts it down, a second thread reads, the child prints on stdout
NextReads ==
    \/ \E s \in Objs :
          \/ FirstRun(s, FALSE)
          \/ CallShutdown(s)
          \/ PollerRead(s)
          \/ PollerReadError(s)
          \/ RunPoll(s)
          \/ ShutdownEnter(s)
          \/ ShutdownTerminate(s)
          \/ ShutdownWait(s)
          \/ ShutdownJoinOut(s)
          \/ ShutdownJoinIn(s)
          \/ ShutdownJoinInWait(s)
          \/ ShutdownJoinErr(s)
          \/ ShutdownFinal(s)
    \/ \E s \in Objs : \E g \in 1 .. Len(procs[s]) :
          \/ ChildEmit(s, g, "out")
          \/ \E w \in {"out", "err"} :
                \/ StreamPoll(s, g, w)
                \/ StreamReadline(s, g, w)
          \/ StreamFull(s, g, "out")
          \/ StreamPut(s, g, "out")
          \/ InputGet(s, g)
          \/ InputPoll(s, g)
          \/ InputWrite(s, g)
          \/ ChildExit(s, g)
          \/ ChildTerminated(s, g)

SpecReads == InitStdin /\ [][NextReads]_vars

\* a ServerManager of one Server used by name, with names it does not hold;
\* the child prints on stdout
InitRegistry ==
    /\ registry = {"s1"}
    /\ InitObjs({"s1"}, {DefaultQueueMax}, {NoInstruction})

\* the caller starts a Server it holds only once, as the life cycle asks
MgrFirstStart(n) == (n \in registry => ~ran[n]) /\ MgrStart(n)
RegistryArgs == {"s1", "zz"}
SendArgs == {Str(<<"a">>), NonStr}

NextRegistry ==
    \/ \E n \in RegistryArgs :
          \/ MgrFirstStart(n)
          \/ MgrShutdown(n)
          \/ \E p \in SendArgs : MgrSend(n, p)
          \/ MgrRead(n)
          \/ \E debug \in BOOLEAN : MgrStatus(n, debug)
          \/ \E v \in OutputArgs : MgrOutput(n, v)
    \/ \E s \in Objs :
          \/ RunPoll(s)
          \/ ShutdownEnter(s)
          \/ ShutdownTerminate(s)
          \/ ShutdownWait(s)
          \/ ShutdownJoinOut(s)
          \/ ShutdownJoinIn(s)
          \/ ShutdownJoinInWait(s)
          \/ ShutdownJoinErr(s)
          \/ ShutdownFinal(s)
    \/ \E s \in Objs : \E g \in 1 .. Len(procs[s]) :
          \/ ChildEmit(s, g, "out")
          \/ \E w \in {"out", "err"} :
                \/ StreamPoll(s, g, w)
                \/ StreamReadline(s, g, w)
          \/ StreamFull(s, g, "out")
          \/ StreamPut(s, g, "out")
          \/ InputGet(s, g)
          \/ InputPoll(s, g)
          \/ InputWrite(s, g)
          \/ ChildExit(s, g)
          \/ ChildTerminated(s, g)

SpecRegistry == InitRegistry /\ [][NextRegistry]_vars

\* shutdown of a Server whose child prints on stdout and whose controller has
\* read before; every thread of the program is scheduled fairly
NextDrain ==
    \/ \E s \in Objs :
          \/ FirstRun(s, FALSE)
          \/ Read(s)
          \/ CallShutdown(s)
          \/ RunPoll(s)
          \/ ShutdownEnter(s)
          \/ ShutdownTerminate(s)
          \/ ShutdownWait(s)
          \/ ShutdownJoinOut(s)
          \/ ShutdownJoinIn(s)
          \/ ShutdownJoinInWait(s)
          \/ ShutdownJoinErr(s)
          \/ ShutdownFinal(s)
    \/ \E s \in Objs : \E g \in 1 .. Len(procs[s]) :
          \/ ChildEmit(s, g, "out")
          \/ \E w \in {"out", "err"} :
                \/ StreamPoll(s, g, w)
                \/ StreamReadline(s, g, w)
          \/ StreamFull(s, g, "out")
          \/ StreamGet(s, g, "out")
          \/ StreamPut(s, g, "out")
          \/ InputGet(s, g)
          \/ InputPoll(s, g)
          \/ InputWrite(s, g)
          \/ ChildExit(s, g)
          \/ ChildTerminated(s, g)

Fairness ==
    /\ WF_vars(ControllerSteps)
    /\ WF_vars(StreamWorkerSteps("out"))
    /\ WF_vars(StreamWorkerSteps("err"))
    /\ WF_vars(InputWorkerSteps)

FairDrain == InitStreams /\ [][NextDrain]_vars /\ Fairness

\* shutdown by a controller that calls run() whenever it likes; the child is
\* silent; every thread of the program is scheduled fairly
NextRerun ==
    \/ \E s \in Objs :
          \/ Run(s, FALSE)
          \/ CallShutdown(s)
          \/ RunPoll(s)
          \/ ShutdownEnter(s)
          \/ ShutdownTerminate(s)
          \/ ShutdownWait(s)
          \/ ShutdownJoinOut(s)
          \/ ShutdownJoinIn(s)
          \/ ShutdownJoinInWait(s)
          \/ ShutdownJoinErr(s)
          \/ ShutdownFinal(s)
    \/ \E s \in Objs : \E g \in 1 .. Len(procs[s]) :
          \/ \E w \in {"out", "err"} :
                \/ StreamPoll(s, g, w)
                \/ StreamReadline(s, g, w)
          \/ InputGet(s, g)
          \/ InputPoll(s, g)
          \/ InputWrite(s, g)
          \/ ChildExit(s, g)
          \/ ChildTerminated(s, g)

FairRerun == InitStdin /\ [][NextRerun]_vars /\ Fairness

\* ================================================================ claims
\* the lines the stream worker has read from the child so far
Arrived(s, g, w) ==
    IF w = "out" THEN procs[s][g].outSent - Len(procs[s][g].stdout)
                 ELSE procs[s][g].errSent - Len(procs[s][g].stderr)
Newest(k, c) == [i \in 1 .. c |-> OutLine(k - c + i)]

\* C1: the stdout-queue never holds more than queue_max lines, and a push by
\* the stdout worker that found the queue full leaves the newest queue_max
\* lines in it, in arrival order, whatever read() calls interleave.
C1_NewestCapacityLinesKept ==
    [][\A s \in Objs :
          /\ Len(queues'[s].output) <= conf[s].queue_max
          /\ \A g \in 1 .. Len(procs[s]) :
                (/\ workers[s][g].out.pc = "put"
                 /\ workers'[s][g].out.pc = "poll"
                 /\ workers[s][g].out.full)
                => queues'[s].output = Newest(Arrived(s, g, "out"), conf[s].queue_max)
      ]_vars

\* C2: the stdout worker's check-full / evict / push is atomic with respect
\* to read(): when it evicts the queue is still full, and neither its get()
\* nor its put() ever finds the queue in the state that blocks it.
C2_EvictPushAtomic ==
    \A s \in Objs : \A g \in 1 .. Len(procs[s]) :
        /\ workers[s][g].out.pc = "get" => QFull(s, "output") /\ ~QEmpty(s, "output")
        /\ workers[s][g].out.pc = "put" => ~QFull(s, "output")

\* C3: every line the stderr worker pushes lands at the tail of the
\* stderr-queue, and leaves the other queues alone.
C3_StderrLinesReachErrorQueue ==
    [][\A s \in Objs : \A g \in 1 .. Len(procs[s]) :
          (workers[s][g].err.pc = "put" /\ workers'[s][g].err.pc = "poll")
          => /\ queues'[s].error = Append(queues[s].error, workers[s][g].err.line)
             /\ queues'[s].input = queues[s].input
      ]_vars

\* C4: a shutdown whose wait timed out with the child still alive does not
\* block forever: it goes through the joins and ends (raising).
C4_TimedOutShutdownEnds ==
    (ctl.pc = "sh_join_out" /\ ctl.timedOut) ~> (ctl.pc = "idle")

OneTerminator(l) ==
    /\ Len(l) > 0 /\ Last(l) = NL
    /\ Len(l) > 1 => l[Len(l) - 1] # NL

\* C5: while the child is alive the stdin worker stays alive whatever text was
\* written, and every line the child's stdin received ends in exactly one
\* line terminator.
C5_WrittenLinesDelivered ==
    \A s \in Objs : \A g \in 1 .. Len(procs[s]) :
        /\ (procs[s][g].alive /\ ~procs[s][g].debug) => IsAlive(workers[s][g].inp)
        /\ \A i \in 1 .. Len(procs[s][g].stdin) : OneTerminator(procs[s][g].stdin[i])

\* C6: whatever is called, a Server has spawned at most one child and started
\* at most one set of three workers.
C6_AtMostOneChild ==
    \A s \in Objs : Len(procs[s]) <= 1 /\ Len(workers[s]) <= 1

\* C7: nothing is on the stdin-queue of a registered Server that has not been
\* started, whatever send_all() calls were made.
C7_SendAllSkipsNotRunning ==
    \A s \in registry : ~ran[s] => queues[s].input = <<>>

\* where shutdown() is from its wait on
ShutdownLaterPcs ==
    {"sh_wait", "sh_join_out", "sh_join_in", "sh_join_in_wait", "sh_join_err", "sh_final"}

\* C8: a shutdown() entered while the Server is not running (never started,
\* or its child has exited) returns None at once and changes no queue, no
\* process and no worker; of the Server's fields only _running may change,
\* and only from True to False for a child that exited unobserved.
C8_ShutdownNoOpWhenNotRunning ==
    [][\A s \in Objs :
          (/\ ctl.pc = "sh_enter" /\ ctl.srv = s /\ ctl' # ctl
           /\ (~ran[s] \/ ~procs[s][Len(procs[s])].alive))
          => /\ ctl' = IdleCtl
             /\ ret'.srv = s /\ ret'.val = RNone
             /\ queues' = queues /\ procs' = procs /\ workers' = workers
             /\ ran' = ran
             /\ running' = [running EXCEPT ![s] = FALSE]
             /\ (~running[s] => running' = running)
      ]_vars
\* a second shutdown() has returned None after the first one signalled the child
C8_SecondShutdownReturnedNone ==
    /\ ran["s1"] /\ ~running["s1"]
    /\ CurProc("s1").term
    /\ ret = Ret("shutdown", "s1", RNone)
    /\ ctl = IdleCtl

\* C9: with instructions configured, each instruction step of shutdown puts
\* the next configured line on the stdin-queue, and when the wait begins (and
\* from then on) exactly the configured lines have been written, in order,
\* and no signal has been sent.
C9_InstructionWrites ==
    [][\A s \in Objs :
          (ctl.srv = s /\ conf[s].instruction.kind # "none")
          => /\ (ctl.pc = "sh_instr" /\ ctl' # ctl)
                => /\ Len(ctl.writes) < Len(conf[s].instruction.lines)
                   /\ queues'[s].input =
                         Append(queues[s].input,
                                conf[s].instruction.lines[Len(ctl.writes) + 1])
                   /\ ctl'.writes =
                         Append(ctl.writes,
                                conf[s].instruction.lines[Len(ctl.writes) + 1])
             /\ ctl'.pc \in ShutdownLaterPcs
                => /\ ctl'.writes = conf[s].instruction.lines
                   /\ ctl'.signals = <<>>
      ]_vars
\* a two-element sequence has been written and the wait is about to begin
C9_SequenceWrittenBeforeWait ==
    /\ ctl.pc = "sh_wait"
    /\ conf["s1"].instruction.kind = "seq"
    /\ Len(ctl.writes) = 2
    /\ queues["s1"].input = conf["s1"].instruction.lines

\* C10: with no instruction configured, when the wait begins (and from then
\* on) shutdown has sent exactly one signal, a terminate, which the child has
\* got unless it had already exited, and has written no instruction; no
\* shutdown ever sends anything but a terminate.
C10_TerminateOnceNeverKill ==
    /\ \A i \in 1 .. Len(ctl.signals) : ctl.signals[i] = "terminate"
    /\ \A s \in Objs :
          (ctl.srv = s /\ conf[s].instruction.kind = "none" /\ ctl.pc \in ShutdownLaterPcs)
          => /\ ctl.signals = <<"terminate">>
             /\ ctl.writes = <<>>
             /\ (CurProc(s).term \/ ~CurProc(s).alive)
\* the terminate has been sent to a live child and the wait is about to begin
C10_TerminateSentBeforeWait ==
    /\ ctl.pc = "sh_wait" /\ ctl.srv = "s1"
    /\ conf["s1"].instruction.kind = "none"
    /\ CurProc("s1").term /\ CurProc("s1").alive

\* C11: run() returns True and leaves _running set when the child is alive at
\* the poll that follows the spawn; when the child has already exited at that
\* poll, run() enters shutdown() and then returns False, with _running cleared
\* and is_running() false.
C11_RunReturnsWhetherAlive ==
    [][\A s \in Objs :
          /\ (ctl.pc = "run_poll" /\ ctl.srv = s /\ ctl' # ctl)
             => IF procs[s][Len(procs[s])].alive
                THEN /\ ctl' = IdleCtl
                     /\ ret' = Ret("run", s, RBool(TRUE))
                     /\ running'[s]
                ELSE /\ ctl'.pc = "sh_enter" /\ ctl'.srv = s
          /\ (/\ ctl.caller = "run" /\ ctl.srv = s
              /\ ctl.pc \notin {"idle", "run_poll"} /\ ctl'.pc = "idle")
             => /\ ret' = Ret("run", s, RBool(FALSE))
                /\ ~running'[s]
                /\ ~procs'[s][Len(procs'[s])].alive
      ]_vars

\* C12: is_running() returns False on a Server that was never started, True
\* while the child of the last run() is alive and False once it has exited;
\* a child that has exited stays exited, so after a False only another run()
\* brings back a True.
C12_IsRunningFollowsChild ==
    [][\A s \in Objs :
          /\ (/\ callsLeft' < callsLeft /\ ctl'.pc = "idle"
              /\ ret'.op = "is_running" /\ ret'.srv = s)
             => ret'.val = RBool(ran[s] /\ procs[s][Len(procs[s])].alive)
          /\ (ran[s] /\ ~procs[s][Len(procs[s])].alive /\ Len(procs'[s]) = Len(procs[s]))
             => ~procs'[s][Len(procs'[s])].alive
      ]_vars
\* is_running() has returned False for a started Server whose child exited
\* without any shutdown
C12_FalseAfterExit ==
    /\ ret = Ret("is_running", "s1", RBool(FALSE))
    /\ ran["s1"] /\ ~CurProc("s1").alive /\ ~CurProc("s1").term
    /\ ~running["s1"]
    /\ ctl = IdleCtl

\* C15: write() of a payload that is not text raises ValueError and changes
\* nothing but the caller's result; no such payload is ever on the
\* stdin-queue, in the stdin worker's hand or delivered to the child.
C15_NonTextWriteRejected ==
    [][\A s \in Objs :
          /\ (/\ callsLeft' < callsLeft /\ ctl'.pc = "idle"
              /\ ret'.op = "write" /\ ret'.srv = s /\ ret'.val # RNone)
             => /\ ret'.val = RRaise("ValueError")
                /\ UNCHANGED <<registry, conf, ran, running, queues, procs, workers, ctl>>
          /\ \A i \in 1 .. Len(queues'[s].input) : queues'[s].input[i] # NonStr.chars
          /\ \A g \in 1 .. Len(procs'[s]) :
                /\ workers'[s][g].inp.line # WithTerminator(NonStr.chars)
                /\ \A i \in 1 .. Len(procs'[s][g].stdin) :
                      procs'[s][g].stdin[i] # WithTerminator(NonStr.chars)
      ]_vars
\* a write of a non-text payload to a running Server has raised
C15_RaisedWhileRunning ==
    /\ ret = Ret("write", "s1", RRaise("ValueError"))
    /\ ran["s1"] /\ CurProc("s1").alive
    /\ queues["s1"].input = <<>>
    /\ ctl = IdleCtl

\* C17: a run() in debug mode starts no thread: none of the three workers of
\* that run exists or is alive at any time.
C17_DebugStartsNoWorkers ==
    \A s \in Objs : \A g \in 1 .. Len(procs[s]) :
        procs[s][g].debug =>
            /\ ~IsAlive(workers[s][g].out)
            /\ ~IsAlive(workers[s][g].inp)
            /\ ~IsAlive(workers[s][g].err)

\* the lines the controller may put on the stdin-queue
Permitted(s) ==
    WriteLines \cup {conf[s].instruction.lines[i] : i \in 1 .. Len(conf[s].instruction.lines)}
               \cup {Sentinel}

\* C20: every line on the stdin-queue was passed to write(), or is a shutdown
\* instruction or the sentinel, and every line delivered to the child's stdin
\* is one of those with its terminator: no captured stdout or stderr line is
\* ever fed back.
C20_NoCapturedLineOnStdin ==
    \A s \in Objs :
        /\ \A i \in 1 .. Len(queues[s].input) : queues[s].input[i] \in Permitted(s)
        /\ \A g \in 1 .. Len(procs[s]) : \A i \in 1 .. Len(procs[s][g].stdin) :
              \E l \in Permitted(s) \ {<<>>} : procs[s][g].stdin[i] = WithTerminator(l)

\* the number of the write() call a delivered line came from; 0 for any other line
LineNo(l) ==
    IF \E k \in 1 .. MaxCalls : l = WithTerminator(InLine(k))
    THEN CHOOSE k \in 1 .. MaxCalls : l = WithTerminator(InLine(k))
    ELSE 0

\* C13: the lines the child's stdin has received from write() calls stand in
\* the order of those calls, each at most once, whatever the three workers
\* and the controller's reads did in between.
C13_WrittenOrderKept ==
    \A s \in Objs : \A g \in 1 .. Len(procs[s]) :
        \A i, j \in 1 .. Len(procs[s][g].stdin) :
            (/\ i < j
             /\ LineNo(procs[s][g].stdin[i]) > 0
             /\ LineNo(procs[s][g].stdin[j]) > 0)
            => LineNo(procs[s][g].stdin[i]) < LineNo(procs[s][g].stdin[j])
\* two written lines have been delivered, with a captured stderr line between them
C13_TwoWrittenLinesDelivered ==
    \E g \in 1 .. Len(procs["s1"]) :
        /\ Len(procs["s1"][g].stdin) = 3
        /\ LineNo(procs["s1"][g].stdin[1]) > 0
        /\ procs["s1"][g].stdin[2] = ErrLine(1)
        /\ LineNo(procs["s1"][g].stdin[3]) > 0

\* the step is a read()/read_error() of s that took its result from queue qn
ReadStep(s, op) == ret' # ret /\ ret'.op = op /\ ret'.srv = s
ReadResult(s, qn) ==
    IF queues[s][qn] = <<>>
    THEN /\ ret'.val = RStr(<<>>)
         /\ queues' = queues
    ELSE /\ ret'.val = RStr(Head(queues[s][qn]))
         /\ queues' = [queues EXCEPT ![s][qn] = Tail(@)]

\* C14: in every state of the Server (not started, running, inside shutdown,
\* stopped) read() and read_error() can return at once; on an empty queue
\* they return "" and change nothing, otherwise they remove and return the
\* oldest line of their queue.
C14_ReadsNeverBlock ==
    /\ [](\A s \in Objs : ENABLED PollerRead(s) /\ ENABLED PollerReadError(s))
    /\ [][\A s \in Objs :
             /\ ReadStep(s, "read") => ReadResult(s, "output")
             /\ ReadStep(s, "read_error") => ReadResult(s, "error")
         ]_vars
\* read() has returned the oldest captured line while shutdown() was waiting
\* for the stdout worker, and left the next one in the queue
C14_ReadDuringShutdown ==
    /\ ctl.pc = "sh_join_out" /\ ctl.srv = "s1"
    /\ ret = Ret("read", "s1", RStr(OutLine(1)))
    /\ queues["s1"].output = <<OutLine(2)>>

\* the manager operations that need a running Server
NeedRunning == {"mgr_send", "mgr_read", "mgr_shutdown"}

\* C16: the registered names never change; a by-name call with a name that is
\* not registered returns None and changes nothing; a call on a registered
\* Server that is not running puts no line on and takes no line off its
\* queues and enters no shutdown, and send, read and shutdown return None.
C16_RegistryNoOps ==
    [][/\ registry' = registry
       /\ callsLeft' < callsLeft =>
             /\ (ret' # ret /\ ret'.srv \notin registry)
                => /\ ret'.val = RNone
                   /\ UNCHANGED <<conf, ran, running, queues, procs, workers, ctl>>
             /\ \A s \in registry :
                   (~ran[s] \/ ~procs[s][Len(procs[s])].alive)
                   => /\ queues'[s] = queues[s]
                      /\ ~(ctl'.srv = s /\ ctl'.pc = "sh_enter")
                      /\ (ret' # ret /\ ret'.srv = s /\ ret'.op \in NeedRunning)
                         => ret'.val = RNone
      ]_vars
\* send() to a registered Server whose child has exited returned None and
\* queued nothing
C16_SendToStoppedDropped ==
    /\ ret = Ret("mgr_send", "s1", RNone)
    /\ ran["s1"] /\ ~CurProc("s1").alive
    /\ queues["s1"].input = <<>>
    /\ CurProc("s1").stdin = <<>>
    /\ ctl = IdleCtl

\* C18: a shutdown() of a running Server whose wait() returned because the
\* child exited goes on to return, whatever the controller read before and
\* however the workers were scheduled; when it returns, it returns the child's
\* exit code, _running is cleared and none of the three workers is alive.
C18_ShutdownReturnsExitCode ==
    /\ (ctl.pc = "sh_join_out" /\ ~ctl.timedOut) ~> (ctl.pc = "idle")
    /\ [][\A s \in Objs :
             (ctl.pc = "sh_final" /\ ctl.srv = s /\ ~ctl.timedOut /\ ctl'.pc = "idle")
             => /\ ret'.val = RInt(procs[s][Len(procs[s])].returncode)
                /\ ~running'[s]
                /\ ~procs'[s][Len(procs[s])].alive
                /\ ~IsAlive(workers'[s][Len(procs[s])].out)
                /\ ~IsAlive(workers'[s][Len(procs[s])].inp)
                /\ ~IsAlive(workers'[s][Len(procs[s])].err)
         ]_vars

\* C19: one shutdown() pushes the sentinel at most once, at the stdin step
\* that follows the join of the stdout worker and only when the stdin worker
\* is alive there; and once the child has exited, the join of the stdin
\* worker that follows the sentinel returns.
C19_OneSentinelEndsStdinWorker ==
    /\ [](ctl.sentinels <= 1)
    /\ [][\A s \in Objs :
             (ctl.srv = s /\ ctl'.sentinels > ctl.sentinels)
             => /\ ctl.pc = "sh_join_in"
                /\ ~IsAlive(workers[s][Len(procs[s])].out)
                /\ IsAlive(workers[s][Len(procs[s])].inp)
                /\ queues'[s].input = Append(queues[s].input, Sentinel)
         ]_vars
    /\ (ctl.pc = "sh_join_in_wait" /\ ~CurProc(ctl.srv).alive)
          ~> (ctl.pc # "sh_join_in_wait")

\* C21: the stdout worker takes a line off the stdout-queue only when the
\* queue holds queue_max lines at that moment, whatever read() calls
\* interleave: no captured line is dropped while the queue has free space.
C21_EvictOnlyWhenFull ==
    [][\A s \in Objs : \A g \in 1 .. Len(procs[s]) :
          (/\ workers[s][g].out.pc = "get"
           /\ workers'[s][g].out.pc = "put"
           /\ Len(queues'[s].output) < Len(queues[s].output))
          => Len(queues[s].output) = conf[s].queue_max
      ]_vars

====
